---- MODULE Spec2Model ----
(***************************************************************************)
(* Model of the historical store of EIOPA_MONITORING (src/analyzer.py,     *)
(* class EIOPAAnalyzer) together with its CSV backing file.                *)
(*                                                                         *)
(* A DataFrame is a record [columns, rows]: columns is the sequence of     *)
(* column names, rows the sequence of rows, each row a function from the   *)
(* column names to cells.  A cell is <<>> (None / NaN) or <<v>>.           *)
(* Dates are proleptic Gregorian ordinals (datetime.toordinal()); rates    *)
(* and VA are integers counting units of 0.0001, so that 0.0265 is 265.    *)
(*                                                                         *)
(* Specifications: Spec (the store and its file, writes may fail),         *)
(* SpecReads (the reads), SpecAnchors (the anchor lookups), SpecDates (the *)
(* anchor dates), SpecAnalysis (analyze and its alerts), SpecIngest (the   *)
(* monthly update, the rebuild and direct upserts), SpecOwners (two        *)
(* analyzers on one file), SpecDownload (the download of a publication)    *)
(* and SpecHistory (runs whose load may fail).                             *)
(***************************************************************************)
EXTENDS Integers, Sequences, FiniteSets, TLC

VARIABLES mem, file, last, pending, failures, cached, raw

vars == <<mem, file, last, pending, failures, cached, raw>>

(***************************************************************************)
(* Bounds of the model.                                                    *)
(***************************************************************************)
\* Number of rows the store may hold.
MaxRecords == 2

\* Dates of observations and of lookups: 2024-01-31, 2024-02-29, 2024-03-01
\* as ordinals.
DateSet == {738916, 738945, 738946}

Countries == {"FR", "DE"}

\* (reference_date, country) of the observations offered to the store: FR at
\* the three dates, DE on 2024-02-29.
Keys == {<<738916, "FR">>, <<738945, "FR">>, <<738946, "FR">>, <<738945, "DE">>}

\* rates and va an observation may carry (maturity -> rate; va None or a
\* value): the first has maturity 2, which is not a configured maturity, and
\* maturity 20 and a va, both of which the second lacks.
Contents ==
    { [rates |-> (1 :> 265) @@ (2 :> 300) @@ (20 :> 265), va |-> <<10>>],
      [rates |-> (1 :> 310), va |-> <<>>] }

\* Number of failed writes in a row.
MaxFailures == 1

\* Years the calendar functions cover.
YearRange == 2023..2025

(***************************************************************************)
(* Configuration (src/config.py).                                          *)
(***************************************************************************)
TARGET_MATURITIES == <<1, 5, 10, 20, 30>>

TargetSet == {TARGET_MATURITIES[i] : i \in DOMAIN TARGET_MATURITIES}

(***************************************************************************)
(* Calendar: datetime / Timestamp arithmetic on ordinals.                  *)
(***************************************************************************)
IsLeap(y) == (y % 4 = 0) /\ ((y % 100 # 0) \/ (y % 400 = 0))

DaysInMonth(y, m) ==
    IF m = 2 THEN (IF IsLeap(y) THEN 29 ELSE 28)
    ELSE IF m \in {4, 6, 9, 11} THEN 30 ELSE 31

\* Days before January 1 of year y.
DaysBeforeYear(y) ==
    LET p == y - 1 IN p * 365 + (p \div 4) - (p \div 100) + (p \div 400)

RECURSIVE DaysBeforeMonth(_, _)
DaysBeforeMonth(y, m) ==
    IF m = 1 THEN 0 ELSE DaysBeforeMonth(y, m - 1) + DaysInMonth(y, m - 1)

Ymd2Ord(y, m, d) == DaysBeforeYear(y) + DaysBeforeMonth(y, m) + d

YearOf(n) ==
    CHOOSE y \in YearRange : DaysBeforeYear(y) < n /\ n <= DaysBeforeYear(y + 1)

MonthOf(n) ==
    LET y == YearOf(n)
        k == n - DaysBeforeYear(y)
    IN  CHOOSE m \in 1..12 :
            DaysBeforeMonth(y, m) < k /\ k <= DaysBeforeMonth(y, m) + DaysInMonth(y, m)

DayOf(n) ==
    n - DaysBeforeYear(YearOf(n)) - DaysBeforeMonth(YearOf(n), MonthOf(n))

(***************************************************************************)
(* Cells and column names.                                                 *)
(***************************************************************************)
NaN == <<>>

Cell(v) == <<v>>

NotNa(c) == c # NaN

RateCol(m) == "rate_" \o ToString(m) \o "y"

RateColumns == [i \in DOMAIN TARGET_MATURITIES |-> RateCol(TARGET_MATURITIES[i])]

MetaColumns == <<"llp", "alpha", "ufr", "cra", "convergence", "coupon_freq">>

\* Columns of the frame created when no backing file exists.
SchemaColumns == <<"reference_date", "country">> \o RateColumns \o <<"va">> \o MetaColumns

\* Keys of the row dict built by add_to_historical, in insertion order.
RowColumns == <<"reference_date", "country">> \o RateColumns \o <<"va">>

Range(s) == {s[i] : i \in DOMAIN s}

\* pd.DataFrame(columns=columns) and pd.DataFrame()
EmptyFrame(columns) == [columns |-> columns, rows |-> <<>>]

\* DataFrame.empty: some axis has length 0.
IsEmpty(df) == Len(df.rows) = 0 \/ Len(df.columns) = 0

(***************************************************************************)
(* CSV text of cells: DataFrame.to_csv and pd.read_csv.                    *)
(***************************************************************************)
Pad2(n) == IF n < 10 THEN "0" \o ToString(n) ELSE ToString(n)

Pad4(n) ==
    IF n < 10 THEN "000" \o ToString(n)
    ELSE IF n < 100 THEN "00" \o ToString(n)
    ELSE IF n < 1000 THEN "0" \o ToString(n)
    ELSE ToString(n)

DigitVal(ch) ==
    CASE ch = "0" -> 0 [] ch = "1" -> 1 [] ch = "2" -> 2 [] ch = "3" -> 3 [] ch = "4" -> 4
      [] ch = "5" -> 5 [] ch = "6" -> 6 [] ch = "7" -> 7 [] ch = "8" -> 8 [] ch = "9" -> 9

\* Value of a string of decimal digits.
RECURSIVE ParseInt(_)
ParseInt(s) ==
    IF Len(s) = 0 THEN 0
    ELSE ParseInt(SubSeq(s, 1, Len(s) - 1)) * 10 + DigitVal(SubSeq(s, Len(s), Len(s)))

RECURSIVE Pow10(_)
Pow10(k) == IF k = 0 THEN 1 ELSE 10 * Pow10(k - 1)

\* ISO text of a date, as to_csv writes a datetime64 column.
FormatDate(n) == ToString(YearOf(n)) \o "-" \o Pad2(MonthOf(n)) \o "-" \o Pad2(DayOf(n))

\* parse_dates=['reference_date']: the date of an ISO text.
ParseDate(s) ==
    Ymd2Ord(ParseInt(SubSeq(s, 1, 4)), ParseInt(SubSeq(s, 6, 7)), ParseInt(SubSeq(s, 9, 10)))

\* Digits without trailing zeros, at least one digit kept.
RECURSIVE StripZeros(_)
StripZeros(s) ==
    IF Len(s) > 1 /\ SubSeq(s, Len(s), Len(s)) = "0"
    THEN StripZeros(SubSeq(s, 1, Len(s) - 1))
    ELSE s

\* Text of a float with three decimals (float_format='%.3f').
FormatFloat3(v) ==
    LET a == IF v < 0 THEN 0 - v ELSE v
    IN  (IF v < 0 THEN "-" ELSE "") \o ToString(a \div 10000) \o "."
            \o SubSeq(Pad4(a % 10000), 1, 3)

\* Text of a float (repr) for a number held in units of 0.0001: 265 is
\* "0.0265", 10 is "0.001".
FormatFloat(v) ==
    LET a == IF v < 0 THEN 0 - v ELSE v
    IN  (IF v < 0 THEN "-" ELSE "") \o ToString(a \div 10000) \o "." \o StripZeros(Pad4(a % 10000))

\* The number a decimal text denotes, in units of 0.0001; digits beyond the
\* fourth decimal are not representable in the model and are dropped.
ParseFloat(s) ==
    LET neg  == SubSeq(s, 1, 1) = "-"
        body == IF neg THEN SubSeq(s, 2, Len(s)) ELSE s
        dots == {i \in 1..Len(body) : SubSeq(body, i, i) = "."}
        dot  == IF dots = {} THEN Len(body) + 1 ELSE CHOOSE i \in dots : TRUE
        ip   == SubSeq(body, 1, dot - 1)
        fp   == SubSeq(body, dot + 1, Len(body))
        f4   == IF Len(fp) > 4 THEN SubSeq(fp, 1, 4) ELSE fp
        val  == ParseInt(ip) * 10000 + ParseInt(f4) * Pow10(4 - Len(f4))
    IN  IF neg THEN 0 - val ELSE val

\* Text of one cell of column col; a missing value is written as the empty field.
TextOf(col, cell) ==
    IF cell = NaN THEN ""
    ELSE IF col = "reference_date" THEN FormatDate(cell[1])
    ELSE IF col = "country" THEN cell[1]
    ELSE FormatFloat(cell[1])

\* Cell read back from the text of a field; the empty field is NaN.
CellOf(col, text) ==
    IF text = "" THEN NaN
    ELSE IF col = "reference_date" THEN Cell(ParseDate(text))
    ELSE IF col = "country" THEN Cell(text)
    ELSE Cell(ParseFloat(text))

(***************************************************************************)
(* The backing file: absent, readable (header and lines) or unreadable.    *)
(***************************************************************************)
AbsentFile == [state |-> "absent", header |-> <<>>, lines |-> <<>>]

CorruptFile == [state |-> "corrupt", header |-> <<>>, lines |-> <<>>]

\* DataFrame.to_csv(path, index=False): the content a complete write leaves.
ToCsv(df) ==
    [state  |-> "ok",
     header |-> df.columns,
     lines  |-> [i \in 1..Len(df.rows) |->
                    [j \in 1..Len(df.columns) |->
                        TextOf(df.columns[j], df.rows[i][df.columns[j]])]]]

\* pd.read_csv(path, parse_dates=['reference_date']) of a readable file.
ReadCsv(f) ==
    [columns |-> f.header,
     rows    |-> [i \in 1..Len(f.lines) |->
                    [c \in Range(f.header) |->
                        LET j == CHOOSE k \in 1..Len(f.header) : f.header[k] = c
                        IN  CellOf(c, f.lines[i][j])]]]

\* read_csv raises on an unreadable file and when the parse_dates column is missing.
ReadFails(f) == f.state = "corrupt" \/ ~("reference_date" \in Range(f.header))

\* EIOPAAnalyzer._load_historical: the frame it returns.
LoadHistorical(f) ==
    IF f.state = "absent" THEN EmptyFrame(SchemaColumns)
    ELSE IF ReadFails(f) THEN EmptyFrame(<<>>)
    ELSE ReadCsv(f)

\* Outcomes of the write in save_historical for a frame of n rows: complete,
\* refused before the file is opened (file untouched), or interrupted after
\* the file was truncated (keep = 0: nothing written; keep = k: the header and
\* k - 1 lines written).
WriteOutcomes(n) ==
    {[kind |-> "ok", keep |-> 0], [kind |-> "denied", keep |-> 0]}
        \cup {[kind |-> "cut", keep |-> k] : k \in 0..n}

\* EIOPAAnalyzer.save_historical: the file after the write attempt.
SaveHistorical(df, f, w) ==
    IF w.kind = "ok" THEN ToCsv(df)
    ELSE IF w.kind = "denied" THEN f
    ELSE IF w.keep = 0 THEN CorruptFile
    ELSE [ToCsv(df) EXCEPT !.lines = SubSeq(ToCsv(df).lines, 1, w.keep - 1)]

\* The frame in memory is rolled back when the write did not complete.
RetainedRollback(old, new, w) == IF w.kind = "ok" THEN new ELSE old

\* historical_data after save_historical returned: the exception of a failed
\* write is caught and logged, the mutated frame stays.
Retained(old, new, w) == new

\* _load_historical without the exists() test: a missing file is a failed read.
LoadLogNoExistsTest(f) == IF f.state = "absent" \/ ReadFails(f) THEN "error" ELSE "info"

\* The log level of the last message _load_historical emits.
LoadLog(f) == IF f.state # "absent" /\ ReadFails(f) THEN "error" ELSE "info"

(***************************************************************************)
(* EIOPAAnalyzer.add_to_historical                                         *)
(***************************************************************************)
\* The maturity whose rate column is col.
MaturityOfCol(col) == CHOOSE m \in TargetSet : RateCol(m) = col

\* The row dict: reference_date, country, one rate per configured maturity
\* (data['rates'].get(maturity): None when the mapping lacks it), va.
BuildRow(data) ==
    [c \in Range(RowColumns) |->
        IF c = "reference_date" THEN Cell(data.reference_date)
        ELSE IF c = "country" THEN Cell(data.country)
        ELSE IF c = "va" THEN data.va
        ELSE IF MaturityOfCol(c) \in DOMAIN data.rates
             THEN Cell(data.rates[MaturityOfCol(c)])
             ELSE NaN]

\* KeyMask that looks for the day after the date of data: the record just
\* upserted is never found again.
KeyMaskNextDay(df, data) ==
    {i \in 1..Len(df.rows) :
        /\ df.rows[i]["reference_date"] = Cell(data.reference_date + 1)
        /\ df.rows[i]["country"] = Cell(data.country)}

\* Row positions whose reference_date and country equal those of data.
KeyMask(df, data) ==
    {i \in 1..Len(df.rows) :
        /\ df.rows[i]["reference_date"] = Cell(data.reference_date)
        /\ df.rows[i]["country"] = Cell(data.country)}

\* Columns of a after which the columns of b that a lacks are appended.
UnionColumns(a, b) == a \o SelectSeq(b, LAMBDA c : c \notin Range(a))

\* LocAssign that skips the None values of the row (a merge).
LocAssignMerge(df, mask, row) ==
    LET cols == UnionColumns(df.columns, RowColumns)
    IN  [columns |-> cols,
         rows    |-> [i \in 1..Len(df.rows) |->
                        [c \in Range(cols) |->
                            IF i \in mask /\ c \in DOMAIN row /\ row[c] # NaN THEN row[c]
                            ELSE IF c \in DOMAIN df.rows[i] THEN df.rows[i][c]
                            ELSE NaN]]]

\* for col, value in row.items(): historical_data.loc[mask, col] = value
LocAssign(df, mask, row) ==
    LET cols == UnionColumns(df.columns, RowColumns)
    IN  [columns |-> cols,
         rows    |-> [i \in 1..Len(df.rows) |->
                        [c \in Range(cols) |->
                            IF i \in mask /\ c \in DOMAIN row THEN row[c]
                            ELSE IF c \in DOMAIN df.rows[i] THEN df.rows[i][c]
                            ELSE NaN]]]

\* pd.concat([historical_data, pd.DataFrame([row])], ignore_index=True)
ConcatRow(df, row) ==
    LET cols == UnionColumns(df.columns, RowColumns)
        widen(r) == [c \in Range(cols) |-> IF c \in DOMAIN r THEN r[c] ELSE NaN]
    IN  [columns |-> cols,
         rows    |-> [i \in 1..Len(df.rows) |-> widen(df.rows[i])] \o <<widen(row)>>]

\* pd.DataFrame([row])
FrameOfRow(row) == [columns |-> RowColumns, rows |-> <<row>>]

\* The orders in which a sort by the given keys may leave the positions:
\* ascending by key; the default sort kind is not stable, so positions of
\* equal key come in any order.
SortedOrders(keys) ==
    {p \in [1..Len(keys) -> 1..Len(keys)] :
        /\ \A i, j \in 1..Len(keys) : i # j => p[i] # p[j]
        /\ \A i, j \in 1..Len(keys) : i < j => keys[p[i]] <= keys[p[j]]}

\* No sort: the rows stay in insertion order.
SortValuesMissing(df) == {df}

\* historical_data.sort_values('reference_date', inplace=True)
SortValues(df) ==
    LET keys == [i \in 1..Len(df.rows) |-> df.rows[i]["reference_date"][1]]
    IN  {[df EXCEPT !.rows = [i \in 1..Len(df.rows) |-> df.rows[p[i]]]] :
            p \in SortedOrders(keys)}

\* Mutated without the key test: the row is appended whether or not its key
\* is already there.
MutatedAlwaysAppend(df, data) ==
    IF ~IsEmpty(df) THEN ConcatRow(df, BuildRow(data)) ELSE FrameOfRow(BuildRow(data))

\* The frame before the sort.
Mutated(df, data) ==
    IF ~IsEmpty(df)
    THEN IF KeyMask(df, data) # {}
         THEN LocAssign(df, KeyMask(df, data), BuildRow(data))
         ELSE ConcatRow(df, BuildRow(data))
    ELSE FrameOfRow(BuildRow(data))

\* The frames add_to_historical may leave in memory.
AddToHistorical(df, data) == SortValues(Mutated(df, data))

(***************************************************************************)
(* EIOPAAnalyzer.get_historical_data                                       *)
(***************************************************************************)
\* The lookup adds its working column to historical_data itself.
AfterReadDiffColumn(df) ==
    [columns |-> UnionColumns(df.columns, <<"diff">>),
     rows    |-> [i \in 1..Len(df.rows) |->
                    [c \in Range(df.columns) \cup {"diff"} |->
                        IF c \in DOMAIN df.rows[i] THEN df.rows[i][c] ELSE NaN]]]

\* historical_data after a read: the reads select rows into new frames
\* (historical_data[mask], .copy()) and assign only to those; no read
\* assigns to historical_data or calls save_historical.
AfterRead(df) == df

\* The dict rebuilt from a row: the configured maturities that are not NaN.
RowDict(df, row) ==
    [reference_date |-> row["reference_date"][1],
     country        |-> row["country"][1],
     rates          |-> [m \in {k \in TargetSet :
                                   RateCol(k) \in Range(df.columns) /\ NotNa(row[RateCol(k)])}
                            |-> row[RateCol(m)][1]],
     va             |-> row["va"]]

\* A lookup that takes the first row of the country within five days of the
\* target date.
GetHistoricalDataNear(df, country, target_date) ==
    LET mask == {i \in 1..Len(df.rows) :
                    /\ df.rows[i]["country"] = Cell(country)
                    /\ df.rows[i]["reference_date"][1] >= target_date - 5
                    /\ df.rows[i]["reference_date"][1] <= target_date + 5}
    IN  IF IsEmpty(df) THEN <<>>
        ELSE IF mask = {} THEN <<>>
        ELSE <<RowDict(df, df.rows[CHOOSE i \in mask : \A j \in mask : i <= j])>>

\* <<>> for None, <<dict>> otherwise; the first matching row is taken.
GetHistoricalData(df, country, target_date) ==
    LET mask == {i \in 1..Len(df.rows) :
                    /\ df.rows[i]["country"] = Cell(country)
                    /\ df.rows[i]["reference_date"] = Cell(target_date)}
    IN  IF IsEmpty(df) THEN <<>>
        ELSE IF mask = {} THEN <<>>
        ELSE <<RowDict(df, df.rows[CHOOSE i \in mask : \A j \in mask : i <= j])>>

(***************************************************************************)
(* Anchor dates (src/src/utils.py) and anchor lookups.                     *)
(***************************************************************************)
MOM_WINDOW_DAYS == 5

YTD_WINDOW_DAYS == 10

\* The date thirty days before reference_date.
get_previous_month_date_30(reference_date) == reference_date - 30

\* reference_date.replace(day=1) - timedelta(days=1)
get_previous_month_date(reference_date) == (reference_date - DayOf(reference_date) + 1) - 1

\* datetime(reference_date.year, 1, 1)
get_year_start_date(reference_date) == Ymd2Ord(YearOf(reference_date), 1, 1)

Abs(x) == IF x < 0 THEN 0 - x ELSE x

\* The search with a window that excludes its two end days.
ClosestInWindowExclusive(df, country, target, window) ==
    LET mask == {i \in 1..Len(df.rows) :
                    /\ df.rows[i]["country"] = Cell(country)
                    /\ df.rows[i]["reference_date"][1] > target - window
                    /\ df.rows[i]["reference_date"][1] < target + window}
        diff(i) == Abs(df.rows[i]["reference_date"][1] - target)
    IN  IF IsEmpty(df) THEN {<<>>}
        ELSE IF mask = {} THEN {<<>>}
        ELSE {<<RowDict(df, df.rows[i])>> : i \in {k \in mask : \A j \in mask : diff(k) <= diff(j)}}

\* The search without the sort by distance: the first row in the window.
ClosestInWindowFirst(df, country, target, window) ==
    LET mask == {i \in 1..Len(df.rows) :
                    /\ df.rows[i]["country"] = Cell(country)
                    /\ df.rows[i]["reference_date"][1] >= target - window
                    /\ df.rows[i]["reference_date"][1] <= target + window}
    IN  IF IsEmpty(df) THEN {<<>>}
        ELSE IF mask = {} THEN {<<>>}
        ELSE {<<RowDict(df, df.rows[CHOOSE i \in mask : \A j \in mask : i <= j])>>}

\* The results the closest-match search around target may return: None when
\* the frame is empty or no row of the country lies in the window, otherwise
\* the first row of the candidates sorted by distance to target.
ClosestInWindow(df, country, target, window) ==
    LET mask == {i \in 1..Len(df.rows) :
                    /\ df.rows[i]["country"] = Cell(country)
                    /\ df.rows[i]["reference_date"][1] >= target - window
                    /\ df.rows[i]["reference_date"][1] <= target + window}
        diff(i) == Abs(df.rows[i]["reference_date"][1] - target)
    IN  IF IsEmpty(df) THEN {<<>>}
        ELSE IF mask = {} THEN {<<>>}
        ELSE {<<RowDict(df, df.rows[i])>> : i \in {k \in mask : \A j \in mask : diff(k) <= diff(j)}}

get_previous_month_data(df, current_date, country) ==
    ClosestInWindow(df, country, get_previous_month_date(current_date), MOM_WINDOW_DAYS)

get_ytd_data(df, current_date, country) ==
    ClosestInWindow(df, country, get_year_start_date(current_date), YTD_WINDOW_DAYS)

(***************************************************************************)
(* EIOPAAnalyzer.get_time_series                                           *)
(***************************************************************************)
\* A query that leaves out the records dated on end_date.
get_time_series_open(df, country, maturity, start_date, end_date) ==
    LET col  == RateCol(maturity)
        keep == {i \in 1..Len(df.rows) :
                    /\ df.rows[i]["country"] = Cell(country)
                    /\ (start_date # <<>> => df.rows[i]["reference_date"][1] >= start_date[1])
                    /\ (end_date # <<>> => df.rows[i]["reference_date"][1] < end_date[1])
                    /\ NotNa(df.rows[i]["reference_date"])
                    /\ NotNa(df.rows[i][col])}
        kept == SelectSeq([i \in 1..Len(df.rows) |-> i], LAMBDA i : i \in keep)
    IN  IF IsEmpty(df) THEN {<<>>}
        ELSE IF col \notin Range(df.columns) THEN {<<>>}
        ELSE {[k \in 1..Len(kept) |->
                 <<df.rows[kept[k]]["reference_date"][1], df.rows[kept[k]][col][1]>>]}

\* The (reference_date, rate) sequences the query may return; start_date and
\* end_date are <<>> when not given.
get_time_series(df, country, maturity, start_date, end_date) ==
    LET col  == RateCol(maturity)
        keep == {i \in 1..Len(df.rows) :
                    /\ df.rows[i]["country"] = Cell(country)
                    /\ (start_date # <<>> => df.rows[i]["reference_date"][1] >= start_date[1])
                    /\ (end_date # <<>> => df.rows[i]["reference_date"][1] <= end_date[1])
                    /\ NotNa(df.rows[i]["reference_date"])
                    /\ NotNa(df.rows[i][col])}
        kept == SelectSeq([i \in 1..Len(df.rows) |-> i], LAMBDA i : i \in keep)
        result == [k \in 1..Len(kept) |->
                      <<df.rows[kept[k]]["reference_date"][1], df.rows[kept[k]][col][1]>>]
        keys == [k \in 1..Len(result) |-> result[k][1]]
    IN  IF IsEmpty(df) THEN {<<>>}
        ELSE IF col \notin Range(df.columns) THEN {<<>>}
        ELSE {[k \in 1..Len(result) |-> result[p[k]]] : p \in SortedOrders(keys)}

(***************************************************************************)
(* Comparison of an observation with its anchors: calculate_bps_change,    *)
(* create_summary_dict (src/src/utils.py), _detect_alerts and analyze.     *)
(*                                                                         *)
(* A change in basis points is a record [bps, ulp]: the rates are doubles, *)
(* and (new_rate - old_rate) * 10000 in double arithmetic is the exact     *)
(* number bps of units of 0.0001 between them when ulp = 0, slightly more  *)
(* when ulp = 1 (0.0310 and 0.0265 give 45.00000000000001) and slightly    *)
(* less when ulp = -1 (0.0365 and 0.0265 give 99.99999999999999).          *)
(***************************************************************************)
ALERT_THRESHOLD_MOM == 50

ALERT_THRESHOLD_YTD == 100

\* Pairs <<old, new>> of the rates and va of the model for which the double
\* (new - old) * 10000 is above the exact value, below it, equal to it.
\* 280, 290 and 350 are the doubles the extractor makes of the cells 2.8,
\* 2.9 and 3.5 (2.8 / 100 and so on); 28000 to 200000 are cells stored as
\* they are, 2000 is 0.2 and 20.0 / 100, -600 is -6.0 / 100.
RoundsUp ==
    { <<300, 400>>, <<300, 350>>, <<300, 315>>, <<265, 400>>, <<265, 350>>,
      <<265, 315>>, <<265, 310>>, <<300, 100>>, <<300, 200>>,
      <<280, 290>>, <<280, 350>>, <<290, 350>>, <<28000, 280>>, <<28000, 350>>,
      <<29000, 350>>, <<280, 2000>>, <<290, 2000>>, <<28000, 2000>>, <<29000, 2000>>,
      <<0 - 60000, 0 - 600>> }

RoundsDown ==
    { <<265, 365>>,
      <<290, 280>>, <<350, 280>>, <<350, 290>>, <<2000, 280>>, <<2000, 290>> }

RoundsExact ==
    { <<100, 100>>, <<100, 200>>, <<10, 200>>,
      <<280, 280>>, <<290, 290>>, <<350, 350>>, <<28000, 290>>, <<29000, 280>>,
      <<29000, 290>>, <<35000, 280>>, <<35000, 290>>, <<35000, 350>>,
      <<200000, 280>>, <<200000, 290>>, <<200000, 350>>, <<2000, 350>>,
      <<350, 2000>>, <<2000, 2000>>, <<35000, 2000>>, <<200000, 2000>>,
      <<0 - 600, 0 - 600>> }

RoundingOf(old, new) ==
    CASE <<old, new>> \in RoundsUp -> 1
      [] <<old, new>> \in RoundsDown -> 0 - 1
      [] <<old, new>> \in RoundsExact -> 0

\* (new_rate - old_rate) * 10000 with the operands exchanged.
calculate_bps_change_reversed(old_rate, new_rate) ==
    [bps |-> old_rate - new_rate, ulp |-> 0 - RoundingOf(old_rate, new_rate)]

\* (new_rate - old_rate) * 10000
calculate_bps_change(old_rate, new_rate) ==
    [bps |-> new_rate - old_rate, ulp |-> RoundingOf(old_rate, new_rate)]

\* abs(change_bps)
AbsBps(d) ==
    IF d.bps < 0 \/ (d.bps = 0 /\ d.ulp < 0)
    THEN [bps |-> 0 - d.bps, ulp |-> 0 - d.ulp]
    ELSE d

\* change_bps > threshold
Above(d, threshold) == d.bps > threshold \/ (d.bps = threshold /\ d.ulp > 0)

\* The threshold test with > in place of >=.
AtLeastStrict(d, threshold) == d.bps > threshold \/ (d.bps = threshold /\ d.ulp > 0)

\* change_bps >= threshold
AtLeast(d, threshold) == d.bps > threshold \/ (d.bps = threshold /\ d.ulp >= 0)

\* format_bps: f"{sign}{bps:.1f} bps", sign "+" when bps >= 0; one decimal
\* takes the rounding of the double away.
format_bps(d) ==
    IF d.bps > 0 \/ (d.bps = 0 /\ d.ulp >= 0)
    THEN "+" \o ToString(d.bps) \o ".0 bps"
    ELSE "-" \o ToString(0 - d.bps) \o ".0 bps"

\* dict.items() of a changes dict is modelled as the sequence of its entries
\* in insertion order; an entry is [key, maturity, change], key "rate" for a
\* maturity and "va" for the 'va' key (maturity 0).
\* The anchor is <<>> (None) or <<dict>>; rates is the mapping of the
\* current observation and order its keys in insertion order.
ChangesOf(rates, order, va, anchor) ==
    IF anchor = <<>> THEN <<>>
    ELSE IF DOMAIN anchor[1].rates = {} THEN <<>>
    ELSE LET shared == SelectSeq(order, LAMBDA m : m \in DOMAIN anchor[1].rates)
         IN  [i \in 1..Len(shared) |->
                 [key |-> "rate", maturity |-> shared[i],
                  change |-> calculate_bps_change(anchor[1].rates[shared[i]],
                                                  rates[shared[i]])]]
             \o (IF anchor[1].va # <<>>
                 THEN <<[key |-> "va", maturity |-> 0,
                         change |-> calculate_bps_change(anchor[1].va[1], va[1])]>>
                 ELSE <<>>)

\* calculate_bps_change(previous_va, va) with va None: None - float raises
\* TypeError.
ChangesRaise(va, anchor) ==
    /\ anchor # <<>>
    /\ DOMAIN anchor[1].rates # {}
    /\ anchor[1].va # <<>>
    /\ va = <<>>

\* create_summary_dict raises when one of the two comparisons does.
SummaryRaises(cur, previous, ytd) ==
    ChangesRaise(cur.va, previous) \/ ChangesRaise(cur.va, ytd)

\* The dict create_summary_dict returns.
create_summary_dict(cur, previous, ytd) ==
    [reference_date |-> cur.reference_date,
     country        |-> cur.country,
     rates          |-> cur.rates,
     va             |-> cur.va,
     changes_mom    |-> ChangesOf(cur.rates, cur.order, cur.va, previous),
     changes_ytd    |-> ChangesOf(cur.rates, cur.order, cur.va, ytd)]

\* The alerts of one comparison: one per entry that is not 'va' and whose
\* absolute change reaches the threshold, in the order of the entries.
AlertsOf(changes, comparison, threshold) ==
    LET hit == SelectSeq(changes,
                   LAMBDA e : e.key # "va" /\ AtLeast(AbsBps(e.change), threshold))
    IN  [i \in 1..Len(hit) |->
            [comparison |-> comparison,
             maturity   |-> hit[i].maturity,
             direction  |-> IF Above(hit[i].change, 0) THEN "hausse" ELSE "baisse"]]

\* EIOPAAnalyzer._detect_alerts
detect_alerts(summary) ==
    AlertsOf(summary.changes_mom, "M/M", ALERT_THRESHOLD_MOM)
        \o AlertsOf(summary.changes_ytd, "YTD", ALERT_THRESHOLD_YTD)

\* The summary analyze returns for the anchors the two lookups gave:
\* the dict of create_summary_dict with previous_date, ytd_date and alerts.
Summary(cur, previous, ytd) ==
    LET summary == create_summary_dict(cur, previous, ytd)
    IN  [reference_date |-> summary.reference_date,
         country        |-> summary.country,
         rates          |-> summary.rates,
         va             |-> summary.va,
         changes_mom    |-> summary.changes_mom,
         changes_ytd    |-> summary.changes_ytd,
         previous_date  |-> IF previous # <<>> THEN <<previous[1].reference_date>> ELSE <<>>,
         ytd_date       |-> IF ytd # <<>> THEN <<ytd[1].reference_date>> ELSE <<>>,
         alerts         |-> detect_alerts(summary)]

\* EIOPAAnalyzer.analyze: the outcomes of the call, each the exception that
\* reaches the caller ("none": normal return) and the summary returned.
analyze(df, cur) ==
    {IF SummaryRaises(cur, previous, ytd)
     THEN [raised |-> "TypeError", summary |-> <<>>]
     ELSE [raised |-> "none", summary |-> <<Summary(cur, previous, ytd)>>] :
        previous \in get_previous_month_data(df, cur.reference_date, cur.country),
        ytd \in get_ytd_data(df, cur.reference_date, cur.country)}

(***************************************************************************)
(* State.                                                                  *)
(*   mem      historical_data of the running EIOPAAnalyzer                 *)
(*   file     the backing file HISTORICAL_FILE                             *)
(*   last     the last call and what its caller observed                   *)
(*   pending  the observation of the latest add_to_historical whose write  *)
(*            failed and has not been followed by a complete write         *)
(*   failures number of failed writes in a row of the running analyzer     *)
(*   cached   <<>>, or <<historical_data>> of the EIOPAAnalyzer the         *)
(*            dashboard process has cached                                 *)
(*   raw      the publication file at output_path in the raw directory     *)
(***************************************************************************)
Records ==
    {[reference_date |-> k[1], country |-> k[2], rates |-> o.rates, va |-> o.va] :
        k \in Keys, o \in Contents}

NoData == [reference_date |-> 0, country |-> "", rates |-> <<>>, va |-> <<>>]

\* Fields of last:
\*   op       the method called
\*   data     the observation passed to add_to_historical
\*   country, date, maturity, start_date, end_date   arguments of the reads
\*   result   what a lookup returned (<<>> is None), series what the query returned
\*   raised   the exception that reached the caller ("none": normal return)
\*   log      "error" when the call logged an error, else "info" or "warning"
\*   saved    the write of save_historical completed
\*   before   number of rows before the call
\*   prior    get_historical_data for the key of data before the call
\*   repeat   the preceding call was add_to_historical with the same data
\*   healed   value of pending before a call whose write completed
\*   cells    the cells of the publication a monthly update processed
\*   force    the force option of a monthly update
\*   existed  output_path existed when download_file was called
\*   outcomes what each fetch attempt of download_file met
\*   attempts number of fetch attempts of download_file
\*   returned download_file returned output_path
NoCall ==
    [op |-> "none", data |-> NoData, country |-> "", date |-> 0, maturity |-> 0,
     start_date |-> <<>>, end_date |-> <<>>, result |-> <<>>, series |-> <<>>,
     raised |-> "none", log |-> "info", saved |-> FALSE, before |-> 0,
     prior |-> <<>>, repeat |-> FALSE, healed |-> NoData,
     cells |-> <<>>, force |-> FALSE, existed |-> FALSE, outcomes |-> <<>>,
     attempts |-> 0, returned |-> FALSE]

\* The raw directory holds no file at output_path.
NoFile == "absent"

\* EIOPAAnalyzer.__init__: what the constructor leaves in last.
Constructed(f) == [NoCall EXCEPT !.op = "load", !.log = LoadLog(f)]

Init ==
    /\ file \in {AbsentFile, CorruptFile}
    /\ mem = LoadHistorical(file)
    /\ last = Constructed(file)
    /\ pending = NoData
    /\ failures = 0
    /\ cached = <<>>
    /\ raw = NoFile

\* A new EIOPAAnalyzer is constructed on the backing file (next run).
Load ==
    /\ mem' = LoadHistorical(file)
    /\ last' = Constructed(file)
    /\ pending' = NoData
    /\ failures' = 0
    /\ UNCHANGED <<file, cached, raw>>

\* add_to_historical(data), the sort and save_historical included, for an
\* observation of records and a store of at most max rows; kinds are the
\* outcomes of the write the environment may produce.
UpsertFrom(records, max, kinds) ==
    \E data \in records :
        /\ (KeyMask(mem, data) # {} /\ ~IsEmpty(mem)) \/ Len(mem.rows) < max
        /\ \E df \in AddToHistorical(mem, data) :
            \E w \in {o \in WriteOutcomes(Len(df.rows)) : o.kind \in kinds} :
                /\ w.kind # "ok" => failures < MaxFailures
                /\ mem' = Retained(mem, df, w)
                /\ file' = SaveHistorical(df, file, w)
                /\ pending' = IF w.kind = "ok" THEN NoData ELSE data
                /\ failures' = IF w.kind = "ok" THEN 0 ELSE failures + 1
                /\ last' = [NoCall EXCEPT
                        !.op = "upsert",
                        !.data = data,
                        !.log = IF w.kind = "ok" THEN "info" ELSE "error",
                        !.saved = (w.kind = "ok"),
                        !.before = Len(mem.rows),
                        !.prior = GetHistoricalData(mem, data.country, data.reference_date),
                        !.repeat = (last.op = "upsert" /\ last.data = data),
                        !.healed = IF w.kind = "ok" THEN pending ELSE NoData]
                /\ UNCHANGED <<cached, raw>>

UpsertWith(kinds) == UpsertFrom(Records, MaxRecords, kinds)

Upsert == UpsertWith({"ok", "denied", "cut"})

\* add_to_historical on a disk that takes every write.
UpsertSaved == UpsertWith({"ok"})

\* get_historical_data(country, target_date), target_date among dates
GetAt(dates) ==
    \E c \in Countries, d \in dates :
        /\ last' = [NoCall EXCEPT !.op = "get", !.country = c, !.date = d,
                                  !.result = GetHistoricalData(mem, c, d)]
        /\ mem' = AfterRead(mem)
        /\ UNCHANGED <<file, pending, failures, cached, raw>>

Get == GetAt(DateSet)

\* get_previous_month_data(current_date, country), current_date among dates
PreviousMonthAt(dates) ==
    \E c \in Countries, d \in dates :
        \E r \in get_previous_month_data(mem, d, c) :
            /\ last' = [NoCall EXCEPT !.op = "previous_month", !.country = c, !.date = d,
                                      !.result = r,
                                      !.log = IF r = <<>> /\ ~IsEmpty(mem) THEN "warning" ELSE "info"]
            /\ mem' = AfterRead(mem)
            /\ UNCHANGED <<file, pending, failures, cached, raw>>

\* get_ytd_data(current_date, country), current_date among dates
YtdAt(dates) ==
    \E c \in Countries, d \in dates :
        \E r \in get_ytd_data(mem, d, c) :
            /\ last' = [NoCall EXCEPT !.op = "ytd", !.country = c, !.date = d,
                                      !.result = r,
                                      !.log = IF r = <<>> /\ ~IsEmpty(mem) THEN "warning" ELSE "info"]
            /\ mem' = AfterRead(mem)
            /\ UNCHANGED <<file, pending, failures, cached, raw>>

QueryMaturities == {1, 2, 20}

QueryBounds == {<<>>, <<738945>>}

PreviousMonth == PreviousMonthAt(DateSet)

Ytd == YtdAt(DateSet)

\* get_time_series(country, maturity, start_date, end_date)
Query ==
    \E c \in Countries, m \in QueryMaturities, s \in QueryBounds, e \in QueryBounds :
        \E r \in get_time_series(mem, c, m, s, e) :
            /\ last' = [NoCall EXCEPT !.op = "query", !.country = c, !.maturity = m,
                                      !.start_date = s, !.end_date = e, !.series = r]
            /\ mem' = AfterRead(mem)
            /\ UNCHANGED <<file, pending, failures, cached, raw>>

\* The store and its backing file: runs and updates, writes may fail.
Next == Load \/ Upsert

Spec == Init /\ [][Next]_vars

\* The store and its reads on a disk that takes every write.
NextReads == Load \/ UpsertSaved \/ Get \/ PreviousMonth \/ Ytd \/ Query

SpecReads == Init /\ [][NextReads]_vars

\* analyze(current_data), current_data among currents
AnalyzeOf(currents) ==
    \E cur \in currents :
        \E o \in analyze(mem, cur) :
            /\ last' = [NoCall EXCEPT !.op = "analyze", !.data = cur,
                                      !.country = cur.country,
                                      !.date = cur.reference_date,
                                      !.result = o.summary, !.raised = o.raised]
            /\ mem' = AfterRead(mem)
            /\ UNCHANGED <<file, pending, failures, cached, raw>>

(***************************************************************************)
(* The anchor lookups on a store of observations around a turn of year.    *)
(***************************************************************************)
\* Number of rows the store of the anchor lookups may hold.
MaxStored == 4

Obs(date, country, content) ==
    [reference_date |-> date, country |-> country,
     rates |-> content.rates, va |-> content.va]

\* An observation with a va and maturities 1, 5, 20, and one without va and
\* with maturities 1, 10.
StoredA == [rates |-> (1 :> 300) @@ (5 :> 265) @@ (20 :> 300), va |-> <<10>>]

StoredB == [rates |-> (1 :> 265) @@ (10 :> 100), va |-> <<>>]

\* Observations offered to the store.  With T = 2023-12-31 (the month end
\* before January 2024) and Y = 2024-01-01 their dates are T-10 = Y-11,
\* T-9 = Y-10, T-7, T-5, T-3 = Y-4, T+2, T+5 = Y+4 and T+6 for FR, and T+2
\* for DE.
AnchorRecords ==
    { Obs(Ymd2Ord(2023, 12, 21), "FR", StoredB),
      Obs(Ymd2Ord(2023, 12, 22), "FR", StoredA),
      Obs(Ymd2Ord(2023, 12, 24), "FR", StoredB),
      Obs(Ymd2Ord(2023, 12, 26), "FR", StoredA),
      Obs(Ymd2Ord(2023, 12, 28), "FR", StoredB),
      Obs(Ymd2Ord(2024, 1, 2), "FR", StoredA),
      Obs(Ymd2Ord(2024, 1, 5), "FR", StoredB),
      Obs(Ymd2Ord(2024, 1, 6), "FR", StoredA),
      Obs(Ymd2Ord(2024, 1, 2), "DE", StoredB) }

\* Dates the anchor lookups are asked for: 2024-01-15, 2024-03-31, 2025-01-15.
AnchorRefs == {Ymd2Ord(2024, 1, 15), Ymd2Ord(2024, 3, 31), Ymd2Ord(2025, 1, 15)}

UpsertAnchor == UpsertFrom(AnchorRecords, MaxStored, {"ok"})

PreviousMonthAnchor == PreviousMonthAt(AnchorRefs)

YtdAnchor == YtdAt(AnchorRefs)

NextAnchors == UpsertAnchor \/ PreviousMonthAnchor \/ YtdAnchor

SpecAnchors == Init /\ [][NextAnchors]_vars

(***************************************************************************)
(* The analysis of an observation against a store of earlier ones.         *)
(***************************************************************************)
\* Observations offered to the store: FR on 2023-12-28 (in both windows of
\* a date of January 2024), 2024-01-10 (in the year-to-date window only) and
\* 2024-02-29 (in the month-over-month window of a date of March 2024).
AnalysisRecords ==
    {Obs(d, "FR", o) :
        d \in {Ymd2Ord(2023, 12, 28), Ymd2Ord(2024, 1, 10), Ymd2Ord(2024, 2, 29)},
        o \in {StoredA, StoredB}}

\* rates, the insertion order of its keys, and va of the observations analysed.
CurrentA ==
    [rates |-> (1 :> 400) @@ (5 :> 310) @@ (10 :> 100) @@ (20 :> 100), va |-> <<200>>]

CurrentB == [rates |-> (1 :> 315), va |-> <<>>]

CurrentC ==
    [rates |-> (1 :> 350) @@ (5 :> 365) @@ (10 :> 200) @@ (20 :> 200), va |-> <<200>>]

Ordered(content, order) ==
    [rates |-> content.rates, order |-> order, va |-> content.va]

CurrentContents ==
    { Ordered(CurrentA, <<1, 5, 10, 20>>), Ordered(CurrentA, <<20, 10, 5, 1>>),
      Ordered(CurrentB, <<1>>),
      Ordered(CurrentC, <<1, 5, 10, 20>>), Ordered(CurrentC, <<5, 20, 1, 10>>) }

\* Reference dates of the observations analysed: 2024-01-31, 2024-03-31.
AnalysisRefs == {Ymd2Ord(2024, 1, 31), Ymd2Ord(2024, 3, 31)}

Currents ==
    {[reference_date |-> d, country |-> "FR", rates |-> c.rates,
      order |-> c.order, va |-> c.va] : d \in AnalysisRefs, c \in CurrentContents}

UpsertAnalysis == UpsertFrom(AnalysisRecords, MaxRecords, {"ok"})

Analyze == AnalyzeOf(Currents)

GetAnalysis == GetAt({Ymd2Ord(2023, 12, 28), Ymd2Ord(2024, 1, 31)})

PreviousMonthAnalysis == PreviousMonthAt(AnalysisRefs)

YtdAnalysis == YtdAt(AnalysisRefs)

NextAnalysis ==
    UpsertAnalysis \/ Analyze \/ GetAnalysis \/ PreviousMonthAnalysis \/ YtdAnalysis \/ Query

SpecAnalysis == Init /\ [][NextAnalysis]_vars

(***************************************************************************)
(* The anchor dates as functions of the reference date.                    *)
(***************************************************************************)
\* Months of the dates the anchor dates are computed for: the month before is
\* December of the year before, February, June.
CalendarMonths == {1, 3, 7}

\* Every day of those months in the years the calendar functions cover.
CalendarDates ==
    {n \in DaysBeforeYear(2023) + 1 .. DaysBeforeYear(2026) : MonthOf(n) \in CalendarMonths}

\* get_previous_month_date(reference_date)
PreviousMonthDate ==
    \E d \in CalendarDates :
        /\ last' = [NoCall EXCEPT !.op = "previous_month_date", !.date = d,
                                  !.result = <<get_previous_month_date(d)>>]
        /\ UNCHANGED <<mem, file, pending, failures, cached, raw>>

\* get_year_start_date(reference_date)
YearStartDate ==
    \E d \in CalendarDates :
        /\ last' = [NoCall EXCEPT !.op = "year_start_date", !.date = d,
                                  !.result = <<get_year_start_date(d)>>]
        /\ UNCHANGED <<mem, file, pending, failures, cached, raw>>

NextDates == PreviousMonthDate \/ YearStartDate

SpecDates == Init /\ [][NextDates]_vars

(***************************************************************************)
(* Ingestion: the monthly update (src/main.py, src/src/processor.py),      *)
(* rebuild_historical.py and direct calls of add_to_historical.            *)
(*                                                                         *)
(* A publication is the reference date of its file name and the cells of   *)
(* the country column of the spot sheet by maturity.  A cell is a number   *)
(* counted in units of 0.0001 like the rates: the cell 2.8 is 28000.       *)
(***************************************************************************)
\* Number of rows the store of the ingestion operations may hold.
MaxHistory == 3

TARGET_COUNTRY == "FR"

MIN_RATE == 0 - 500

MAX_RATE == 1500

MIN_VA == 0

MAX_VA == 200

\* A validation that lets every rate through.
validate_rate_any(rate) == TRUE

\* MIN_RATE <= rate <= MAX_RATE
validate_rate(rate) == MIN_RATE <= rate /\ rate <= MAX_RATE

\* rate_float / 100: the cell is a percentage.
PercentToDecimal(cell) == cell \div 100

\* The rates dict of the extractor (<<>> is None): for each configured
\* maturity the sheet has, the cell as a decimal when validate_rate accepts it.
extract_country_rates_from_pivot(cells) ==
    LET valid == {m \in TargetSet \cap DOMAIN cells :
                     validate_rate(PercentToDecimal(cells[m]))}
    IN  IF valid = {} THEN <<>>
        ELSE <<[m \in valid |-> PercentToDecimal(cells[m])]>>

\* EIOPAProcessor.process: None, or the observation with its rates in the
\* order the extractor inserted them (that of TARGET_MATURITIES) and no va.
process(pub) ==
    LET rates == extract_country_rates_from_pivot(pub.cells)
    IN  IF rates = <<>> THEN <<>>
        ELSE <<[reference_date |-> pub.reference_date,
                country        |-> TARGET_COUNTRY,
                rates          |-> rates[1],
                order          |-> SelectSeq(TARGET_MATURITIES,
                                             LAMBDA m : m \in DOMAIN rates[1]),
                va             |-> <<>>]>>

\* The observation rebuild_historical makes of a processed file (<<>>: the
\* file is skipped): the cells of the configured maturities as they are.
RebuildData(pub) ==
    LET found == TargetSet \cap DOMAIN pub.cells
    IN  IF found = {} THEN <<>>
        ELSE <<[reference_date |-> pub.reference_date,
                country        |-> TARGET_COUNTRY,
                rates          |-> [m \in found |-> pub.cells[m]],
                va             |-> <<>>]>>

\* sorted(excel_files): the file names carry the reference date.
FilesInOrder(files) ==
    CHOOSE s \in [1..Cardinality(files) -> files] :
        \A i, j \in 1..Cardinality(files) :
            i < j => s[i].reference_date < s[j].reference_date

\* The frames the loop of rebuild_historical may leave in the analyzer.
RECURSIVE RebuildFrom(_, _)
RebuildFrom(dfs, files) ==
    IF files = <<>> THEN dfs
    ELSE LET data == RebuildData(Head(files))
         IN  RebuildFrom(IF data = <<>> THEN dfs
                         ELSE UNION {AddToHistorical(df, data[1]) : df \in dfs},
                         Tail(files))

Publication(date, cells) == [reference_date |-> date, cells |-> cells]

\* The publications: 1y at 2.8, 2.9 and 3.5 at the ends of January, February
\* and March 2024; one of 2024-03-03 whose 5y cell, 20.0, and 10y cell, -6.0,
\* are out of range; one of 2024-01-05; one of 2024-04-30 whose only cell is
\* out of range.
Publications ==
    { Publication(Ymd2Ord(2024, 1, 31), (1 :> 28000)),
      Publication(Ymd2Ord(2024, 2, 29), (1 :> 29000)),
      Publication(Ymd2Ord(2024, 3, 31), (1 :> 35000)),
      Publication(Ymd2Ord(2024, 3, 3), (1 :> 35000) @@ (5 :> 200000) @@ (10 :> (0 - 60000))),
      Publication(Ymd2Ord(2024, 1, 5), (1 :> 29000)),
      Publication(Ymd2Ord(2024, 4, 30), (1 :> 200000)) }

\* The observation a caller passes to add_to_historical itself: 1y at 0.20
\* and a va of 0.05 on 2024-02-29.
DirectRecords ==
    {Obs(Ymd2Ord(2024, 2, 29), "FR", [rates |-> (1 :> 2000), va |-> <<500>>])}

\* run_monthly_update once the publication is in the raw directory: process,
\* then a new EIOPAAnalyzer, add_to_historical and analyze.
MonthlyUpdate ==
    \E pub \in Publications :
        LET cur == process(pub)
            loaded == LoadHistorical(file)
        IN  IF cur = <<>>
            THEN /\ last' = [NoCall EXCEPT !.op = "update", !.date = pub.reference_date,
                                           !.cells = pub.cells, !.log = "error"]
                 /\ UNCHANGED <<mem, file, pending, failures, cached, raw>>
            ELSE LET data == Obs(cur[1].reference_date, cur[1].country, cur[1])
                 IN  /\ (KeyMask(loaded, data) # {} /\ ~IsEmpty(loaded))
                            \/ Len(loaded.rows) < MaxHistory
                     /\ \E df \in AddToHistorical(loaded, data) :
                            \E o \in analyze(df, cur[1]) :
                                /\ mem' = df
                                /\ file' = SaveHistorical(df, file, [kind |-> "ok", keep |-> 0])
                                /\ pending' = NoData
                                /\ failures' = 0
                                /\ last' = [NoCall EXCEPT
                                        !.op = "update",
                                        !.data = data,
                                        !.date = pub.reference_date,
                                        !.cells = pub.cells,
                                        !.country = data.country,
                                        !.result = o.summary,
                                        !.raised = o.raised,
                                        !.saved = TRUE,
                                        !.before = Len(loaded.rows),
                                        !.prior = GetHistoricalData(loaded, data.country,
                                                                    data.reference_date)]
                                /\ UNCHANGED <<cached, raw>>

\* rebuild_historical() on a processed directory holding files: the backing
\* file is renamed away, a new EIOPAAnalyzer starts empty and every file is
\* added in turn.
Rebuild ==
    \E files \in {S \in SUBSET Publications : Cardinality(S) <= MaxHistory} :
        \E df \in RebuildFrom({LoadHistorical(AbsentFile)}, FilesInOrder(files)) :
            /\ mem' = df
            /\ file' = IF IsEmpty(df) THEN AbsentFile
                       ELSE SaveHistorical(df, AbsentFile, [kind |-> "ok", keep |-> 0])
            /\ pending' = NoData
            /\ failures' = 0
            /\ last' = [NoCall EXCEPT !.op = "rebuild", !.before = Cardinality(files),
                                      !.saved = ~IsEmpty(df)]
            /\ UNCHANGED <<cached, raw>>

\* add_to_historical called with an observation of the caller's own.
DirectUpsert == UpsertFrom(DirectRecords, MaxHistory, {"ok"})

NextIngest == MonthlyUpdate \/ Rebuild \/ DirectUpsert

SpecIngest == Init /\ [][NextIngest]_vars

(***************************************************************************)
(* Two analyzers on one backing file: the one of a command-line run (mem)  *)
(* and the one the dashboard caches for the life of its server process     *)
(* (src/app.py, get_analyzer under st.cache_resource).                     *)
(***************************************************************************)
\* Observations either owner may be given: FR at the three dates.
OwnerRecords == {Obs(d, "FR", StoredB) : d \in DateSet}

\* An add_to_historical that rereads the backing file before it mutates.
OwnFrameReloaded(own, f) == LoadHistorical(f)

\* The frame add_to_historical mutates: historical_data of the instance, as
\* loaded by its constructor and changed by its own calls since; the file is
\* not read again.
OwnFrame(own, f) == own

\* historical_data of the analyzer get_analyzer() returns: the cached one,
\* constructed on the backing file by the first call.
get_analyzer(c, f) == IF c = <<>> THEN LoadHistorical(f) ELSE c[1]

\* A first page of the dashboard process calls get_analyzer().
DashboardStart ==
    /\ cached = <<>>
    /\ cached' = <<get_analyzer(cached, file)>>
    /\ last' = [NoCall EXCEPT !.op = "dashboard_load", !.log = LoadLog(file)]
    /\ UNCHANGED <<mem, file, pending, failures, raw>>

\* The dashboard's update: add_to_historical of the cached analyzer, sort and
\* save included (the analysis and the reports that follow change nothing).
DashboardUpsert ==
    \E data \in OwnerRecords :
        LET own == OwnFrame(get_analyzer(cached, file), file)
        IN  /\ (KeyMask(own, data) # {} /\ ~IsEmpty(own)) \/ Len(own.rows) < MaxRecords
            /\ \E df \in AddToHistorical(own, data) :
                  /\ cached' = <<df>>
                  /\ file' = SaveHistorical(df, file, [kind |-> "ok", keep |-> 0])
                  /\ last' = [NoCall EXCEPT !.op = "dashboard_upsert", !.data = data,
                                            !.saved = TRUE, !.before = Len(own.rows)]
                  /\ UNCHANGED <<mem, pending, failures, raw>>

\* add_to_historical of the command-line run's analyzer.
CliUpsert == UpsertFrom(OwnerRecords, MaxRecords, {"ok"})

NextOwners == Load \/ CliUpsert \/ DashboardStart \/ DashboardUpsert

SpecOwners == Init /\ [][NextOwners]_vars

(***************************************************************************)
(* EIOPADownloader.download_file (src/downloader.py) as the first step of  *)
(* run_monthly_update.  raw is the file at output_path: "absent",          *)
(* "partial" (opened for writing, not all chunks written) or "complete".   *)
(***************************************************************************)
MAX_RETRIES == 3

\* What a fetch attempt may meet:
\*   "ok"      every chunk was written
\*   "request" session.get or raise_for_status raised a RequestException
\*             (connection, timeout, HTTP status): output_path not opened
\*   "stream"  iter_content raised a RequestException after the file was opened
\*   "open"    open(output_path, 'wb') raised OSError
\*   "write"   f.write raised OSError (disk full) after the file was opened
AttemptOutcomes == {"ok", "request", "stream", "open", "write"}

\* The loop of download_file from attempt (counted from 0) on, the file at
\* output_path being in state at.
RECURSIVE Attempts(_, _, _)
Attempts(at, outcomes, attempt) ==
    IF attempt >= MAX_RETRIES
    THEN [raw |-> at, attempts |-> attempt, returned |-> FALSE, raised |-> "none"]
    ELSE LET o == outcomes[attempt + 1]
             written == IF o \in {"stream", "write"} THEN "partial" ELSE at
         IN  IF o = "ok"
             THEN [raw |-> "complete", attempts |-> attempt + 1,
                   returned |-> TRUE, raised |-> "none"]
             ELSE IF o \in {"open", "write"}
             THEN [raw |-> written, attempts |-> attempt + 1,
                   returned |-> FALSE, raised |-> "OSError"]
             ELSE IF attempt < MAX_RETRIES - 1
             THEN Attempts(written, outcomes, attempt + 1)
             ELSE [raw |-> NoFile, attempts |-> attempt + 1,
                   returned |-> FALSE, raised |-> "RequestException"]

\* download_file(url, filename) with the file at output_path in state at.
download_file(at, outcomes) ==
    IF at # NoFile
    THEN [raw |-> at, attempts |-> 0, returned |-> TRUE, raised |-> "none"]
    ELSE Attempts(at, outcomes, 0)

\* Step 1 of run_monthly_update(specific_date, force_redownload):
\* download_latest() or download_by_date(specific_date), both of which call
\* download_file(url, filename); force_redownload is passed to nothing.
DownloadStep ==
    \E force \in BOOLEAN, outcomes \in [1..MAX_RETRIES -> AttemptOutcomes] :
        LET r == download_file(raw, outcomes)
        IN  /\ raw' = r.raw
            /\ last' = [NoCall EXCEPT !.op = "download", !.force = force,
                                      !.existed = (raw # NoFile),
                                      !.outcomes = SubSeq(outcomes, 1, r.attempts),
                                      !.attempts = r.attempts,
                                      !.returned = r.returned,
                                      !.raised = r.raised]
            /\ UNCHANGED <<mem, file, pending, failures, cached>>

NextDownload == DownloadStep

SpecDownload == Init /\ [][NextDownload]_vars

(***************************************************************************)
(* Runs whose read of the backing file may fail although the file is       *)
(* intact (it is locked or unreadable for the moment).                     *)
(***************************************************************************)
\* What read_csv may meet on a backing file that exists: it reads the file,
\* or raises.
ReadOutcomes == {"ok", "error"}

\* _load_historical when read_csv meets outcome r: an exception is caught
\* and logged and an empty frame is returned.
LoadHistoricalWith(f, r) ==
    IF f.state # "absent" /\ r = "error" THEN EmptyFrame(<<>>)
    ELSE LoadHistorical(f)

\* A new EIOPAAnalyzer is constructed on the backing file.
LoadUnreliable ==
    \E r \in ReadOutcomes :
        /\ mem' = LoadHistoricalWith(file, r)
        /\ last' = [NoCall EXCEPT
                        !.op = "load",
                        !.log = IF file.state # "absent" /\ r = "error" THEN "error"
                                ELSE LoadLog(file)]
        /\ pending' = NoData
        /\ failures' = 0
        /\ UNCHANGED <<file, cached, raw>>

NextHistory == LoadUnreliable \/ UpsertSaved

SpecHistory == Init /\ [][NextHistory]_vars

(***************************************************************************)
(* Properties of the store.                                                *)
(***************************************************************************)
KeyOfRow(row) == <<row["reference_date"], row["country"]>>

\* No two rows of the frame have the same (reference_date, country).
UniqueKeys(df) ==
    \A i, j \in 1..Len(df.rows) : i # j => KeyOfRow(df.rows[i]) # KeyOfRow(df.rows[j])

\* The rows of the frame are in non-decreasing reference_date order.
DateOrdered(df) ==
    \A i, j \in 1..Len(df.rows) :
        i < j => df.rows[i]["reference_date"][1] <= df.rows[j]["reference_date"][1]

\* What a lookup of the key of data returns when the store holds exactly
\* data: the rates of the configured maturities and the va, nothing else.
AsStored(data) ==
    [reference_date |-> data.reference_date,
     country        |-> data.country,
     rates          |-> [m \in DOMAIN data.rates \cap TargetSet |-> data.rates[m]],
     va             |-> data.va]

\* The two frames hold the same records under the same columns.
SameRecords(a, b) == a.columns = b.columns /\ Range(a.rows) = Range(b.rows)

\* C1: the store holds at most one record per (reference_date, country), in
\* memory and in a readable backing file, and an upsert whose key was already
\* there has not increased the number of records.
C1_OneRecordPerKey ==
    /\ UniqueKeys(mem)
    /\ (file.state = "ok" => UniqueKeys(ReadCsv(file)))
    /\ (last.op = "upsert" /\ last.prior # <<>> => Len(mem.rows) <= last.before)

\* An upsert has replaced a record of a store holding two records.
C1_Witness ==
    last.op = "upsert" /\ last.prior # <<>> /\ Len(mem.rows) >= 2 /\ last.before >= 2

\* C2: after an upsert on a key that was already there, the exact lookup of
\* that key returns exactly the rates and va of the upserted record: what the
\* record lacks is absent whatever the replaced record had.
C2_Overwrite ==
    (last.op = "upsert" /\ last.prior # <<>>) =>
        GetHistoricalData(mem, last.data.country, last.data.reference_date)
            = <<AsStored(last.data)>>

\* The replaced record had a rate for maturity 20 and a va, the new one has neither.
C2_Witness ==
    /\ last.op = "upsert" /\ last.prior # <<>>
    /\ 20 \in DOMAIN last.prior[1].rates /\ 20 \notin DOMAIN last.data.rates
    /\ last.prior[1].va # <<>> /\ last.data.va = <<>>
    /\ 1 \in DOMAIN last.prior[1].rates /\ last.prior[1].rates[1] # last.data.rates[1]

\* C3: an upsert that repeats the preceding upsert (same record, both writes
\* complete) leaves the same records in memory and in the backing file.
C3_Idempotent ==
    [][(/\ last.op = "upsert" /\ last.saved
        /\ last'.op = "upsert" /\ last'.saved /\ last'.repeat
        /\ last'.data = last.data)
       => (/\ SameRecords(mem', mem)
           /\ file'.state = file.state
           /\ SameRecords(ReadCsv(file'), ReadCsv(file))
           /\ Len(mem'.rows) = Len(mem.rows)
           /\ Len(file'.lines) = Len(file.lines))]_vars

\* The same record has been upserted twice in a row into a store that holds
\* another record as well.
C3_Witness ==
    last.op = "upsert" /\ last.repeat /\ last.saved /\ Len(mem.rows) >= 2

\* C4: the records are in non-decreasing reference_date order, in memory and
\* in a readable backing file.
C4_DateOrdered ==
    /\ DateOrdered(mem)
    /\ (file.state = "ok" => DateOrdered(ReadCsv(file)))

\* A record has been inserted whose date is earlier than that of a record
\* already there, and written.
C4_Witness ==
    /\ last.op = "upsert" /\ last.prior = <<>> /\ last.saved
    /\ \E i \in 1..Len(mem.rows) :
          mem.rows[i]["reference_date"][1] > last.data.reference_date

C6_WriteErrorSurfaced ==
    [][(last'.op = "upsert" /\ ~last'.saved)
       => (/\ last'.raised = "StorageWriteError"
           /\ GetHistoricalData(mem', last'.data.country, last'.data.reference_date)
                 = <<AsStored(last'.data)>>
           /\ file' = file)]_vars

\* C7: the first upsert whose write completes after a failed one leaves in
\* the backing file the whole frame in memory, the record of the failed
\* upsert and the new record included.
C7_NextWriteHeals ==
    (last.op = "upsert" /\ last.saved /\ last.healed # NoData) =>
        /\ file.state = "ok"
        /\ LoadHistorical(file) = mem
        /\ GetHistoricalData(LoadHistorical(file), last.data.country, last.data.reference_date)
              = <<AsStored(last.data)>>
        /\ (<<last.healed.reference_date, last.healed.country>>
               # <<last.data.reference_date, last.data.country>>
            => GetHistoricalData(LoadHistorical(file), last.healed.country,
                                 last.healed.reference_date) = <<AsStored(last.healed)>>)

\* A write has completed after the write of an upsert of another key failed.
C7_Witness ==
    /\ last.op = "upsert" /\ last.saved /\ last.healed # NoData
    /\ <<last.healed.reference_date, last.healed.country>>
          # <<last.data.reference_date, last.data.country>>
    /\ Len(file.lines) >= 2

\* C8: constructing the store on a backing file that exists and cannot be
\* read gives the caller a StorageReadError.
C8_ReadErrorSurfaced ==
    (last.op = "load" /\ file.state # "absent" /\ ReadFails(file)) =>
        last.raised = "StorageReadError"

\* C9: constructing the store when the backing file does not exist is not an
\* error; the store is empty with the schema columns, every read on it
\* returns nothing, and an upsert into the empty store puts the record in
\* memory and in the file.
C9_EmptyBootstrap ==
    /\ file.state = "absent" =>
          /\ mem = EmptyFrame(SchemaColumns)
          /\ last.raised = "none"
          /\ last.log = "info"
          /\ (last.op \in {"get", "previous_month", "ytd"} => last.result = <<>>)
          /\ (last.op = "query" => last.series = <<>>)
    /\ (last.op = "upsert" /\ last.before = 0) =>
          /\ last.raised = "none" /\ last.saved
          /\ mem.rows = <<BuildRow(last.data)>>
          /\ LoadHistorical(file) = mem

\* A read has been made on the store constructed without a backing file.
C9_Witness ==
    file.state = "absent" /\ last.op \in {"get", "previous_month", "ytd", "query"}

\* C10: the exact lookup returns a record exactly when a stored record has
\* that country and that reference_date; the record returned has that key and
\* the rates and va of the stored record.
C10_ExactMatch ==
    last.op = "get" =>
        LET hits == {i \in 1..Len(mem.rows) :
                        /\ mem.rows[i]["reference_date"][1] = last.date
                        /\ mem.rows[i]["country"][1] = last.country}
        IN  /\ (last.result = <<>>) <=> (hits = {})
            /\ last.result # <<>> =>
                  \E i \in hits :
                      /\ last.result[1].reference_date = last.date
                      /\ last.result[1].country = last.country
                      /\ last.result[1].va = mem.rows[i]["va"]
                      /\ \A m \in TargetSet :
                            IF NotNa(mem.rows[i][RateCol(m)])
                            THEN /\ m \in DOMAIN last.result[1].rates
                                 /\ last.result[1].rates[m] = mem.rows[i][RateCol(m)][1]
                            ELSE m \notin DOMAIN last.result[1].rates

\* The lookup returned none although the store holds the same country one day
\* away and the same date for the other country.
C10_Witness ==
    /\ last.op = "get" /\ last.result = <<>>
    /\ \E i, j \in 1..Len(mem.rows) :
          /\ mem.rows[i]["country"][1] = last.country
          /\ Abs(mem.rows[i]["reference_date"][1] - last.date) = 1
          /\ mem.rows[j]["country"][1] # last.country
          /\ mem.rows[j]["reference_date"][1] = last.date

(***************************************************************************)
(* Properties of the anchor lookups.                                       *)
(***************************************************************************)
\* The last day of the month before the month of date d.
LastDayOfPreviousMonth(d) ==
    IF MonthOf(d) = 1 THEN Ymd2Ord(YearOf(d) - 1, 12, 31)
    ELSE Ymd2Ord(YearOf(d), MonthOf(d) - 1, DaysInMonth(YearOf(d), MonthOf(d) - 1))

\* January 1 of the year of date d.
FirstOfJanuary(d) == Ymd2Ord(YearOf(d), 1, 1)

\* The anchor and the window of the lookup recorded in last.
AnchorOfLast ==
    IF last.op = "previous_month" THEN LastDayOfPreviousMonth(last.date)
    ELSE FirstOfJanuary(last.date)

WindowOfLast == IF last.op = "previous_month" THEN 5 ELSE 10

DateOfRow(df, i) == df.rows[i]["reference_date"][1]

\* Positions of the rows of country at most w days from anchor.
InWindow(df, country, anchor, w) ==
    {i \in 1..Len(df.rows) :
        /\ df.rows[i]["country"][1] = country
        /\ Abs(DateOfRow(df, i) - anchor) <= w}

\* The dict r has the key, the rates and the va of the row.
ReturnsRow(r, row) ==
    /\ r.reference_date = row["reference_date"][1]
    /\ r.country = row["country"][1]
    /\ r.va = row["va"]
    /\ \A m \in TargetSet :
          IF NotNa(row[RateCol(m)])
          THEN m \in DOMAIN r.rates /\ r.rates[m] = row[RateCol(m)][1]
          ELSE m \notin DOMAIN r.rates

\* Dates of the records of country in the frame.
DatesOf(df, country) ==
    {DateOfRow(df, i) : i \in {k \in 1..Len(df.rows) : df.rows[k]["country"][1] = country}}

\* C11: an anchor lookup returns none exactly when no record of the country
\* lies within the window (5 days around the last day of the previous month,
\* 10 days around January 1, both ends included); otherwise it returns a
\* record of the country in the window at minimal distance from the anchor.
C11_NearestInWindow ==
    last.op \in {"previous_month", "ytd"} =>
        LET hits == InWindow(mem, last.country, AnchorOfLast, WindowOfLast)
        IN  /\ (last.result = <<>>) <=> (hits = {})
            /\ last.result # <<>> =>
                  \E i \in hits :
                      /\ ReturnsRow(last.result[1], mem.rows[i])
                      /\ \A j \in hits :
                            Abs(DateOfRow(mem, i) - AnchorOfLast)
                                <= Abs(DateOfRow(mem, j) - AnchorOfLast)

\* The month-over-month lookup returned a record exactly 5 days from the
\* anchor while the store holds a record of the country 6 days from it and a
\* nearer record of the other country.
C11_Witness ==
    /\ last.op = "previous_month" /\ last.result # <<>>
    /\ Abs(last.result[1].reference_date - LastDayOfPreviousMonth(last.date)) = 5
    /\ \E d \in DatesOf(mem, last.country) :
          Abs(d - LastDayOfPreviousMonth(last.date)) = 6
    /\ \E c \in Countries \ {last.country} : \E d \in DatesOf(mem, c) :
          Abs(d - LastDayOfPreviousMonth(last.date)) < 5

\* The month-over-month lookup was made on a store whose records of the
\* country are at T-7, T-3, T+2 and T+6, T the month-end anchor.
C12_Case ==
    /\ last.op = "previous_month"
    /\ DatesOf(mem, last.country) =
           {LastDayOfPreviousMonth(last.date) + k : k \in {0 - 7, 0 - 3, 2, 6}}

\* C12 as stated: with records at T-7, T-3, T+2 and T+6 the month-over-month
\* lookup returns the record at T-3.
C12_PicksTMinus3 ==
    C12_Case =>
        /\ last.result # <<>>
        /\ last.result[1].reference_date = LastDayOfPreviousMonth(last.date) - 3

\* C12 amended: with records at T-7, T-3, T+2 and T+6 the month-over-month
\* lookup returns the record at T+2, the nearest one in the window; the
\* records at T-7 and T+6 are never returned.
C12_PicksTPlus2 ==
    C12_Case =>
        /\ last.result # <<>>
        /\ last.result[1].reference_date = LastDayOfPreviousMonth(last.date) + 2

\* The lookup was made on such a store of four records.
C12_Witness == C12_Case /\ Len(mem.rows) >= 4 /\ last.result # <<>>

C14_PreviousMonthEnd ==
    last.op = "previous_month_date" =>
        /\ last.result[1] = LastDayOfPreviousMonth(last.date)
        /\ last.result[1] = Ymd2Ord(YearOf(last.date), MonthOf(last.date), 1) - 1
        /\ (MonthOf(last.date) = 1 =>
               last.result[1] = Ymd2Ord(YearOf(last.date) - 1, 12, 31))
        /\ (MonthOf(last.date) = 3 =>
               last.result[1] = Ymd2Ord(YearOf(last.date), 2,
                                        IF IsLeap(YearOf(last.date)) THEN 29 ELSE 28))

\* The previous month end of March 31 of a leap year has been computed.
C14_Witness ==
    /\ last.op = "previous_month_date"
    /\ MonthOf(last.date) = 3 /\ DayOf(last.date) = 31 /\ IsLeap(YearOf(last.date))
    /\ DayOf(last.result[1]) = 29 /\ MonthOf(last.result[1]) = 2

(***************************************************************************)
(* Properties of the analysis.                                             *)
(***************************************************************************)
\* The call recorded in last is an analyze that returned its summary.
Analyzed == last.op = "analyze" /\ last.raised = "none"

\* The row of the frame with the country and the date (a cell <<d>>).
AnchorRow(df, country, date) ==
    df.rows[CHOOSE i \in 1..Len(df.rows) :
                /\ df.rows[i]["country"][1] = country
                /\ df.rows[i]["reference_date"] = date]

\* The two comparisons of the summary s: the changes, the anchor date, the
\* name of the comparison in alerts, the threshold.
Comparisons(s) ==
    { [changes |-> s.changes_mom, date |-> s.previous_date, name |-> "M/M", threshold |-> 50],
      [changes |-> s.changes_ytd, date |-> s.ytd_date, name |-> "YTD", threshold |-> 100] }

\* Entries of a changes sequence for the rate of maturity m, and for va.
RateEntries(changes, m) ==
    {i \in 1..Len(changes) : changes[i].key = "rate" /\ changes[i].maturity = m}

VaEntries(changes) == {i \in 1..Len(changes) : changes[i].key = "va"}

Maturities == TargetSet \cup UNION {DOMAIN c.rates : c \in Currents}

\* C15: for a resolved anchor the changes have an entry for maturity m
\* exactly when the current observation and the anchor both have a rate for
\* m, and the entry is exactly (current rate - anchor rate) * 10000.
C15_Deltas ==
    Analyzed =>
        \A c \in Comparisons(last.result[1]) :
            c.date # <<>> =>
                LET row == AnchorRow(mem, last.country, c.date)
                IN  \A m \in Maturities :
                        LET both == m \in DOMAIN last.data.rates /\ m \in TargetSet
                                        /\ NotNa(row[RateCol(m)])
                        IN  /\ Cardinality(RateEntries(c.changes, m)) = IF both THEN 1 ELSE 0
                            /\ \A i \in RateEntries(c.changes, m) :
                                  c.changes[i].change
                                    = [bps |-> last.data.rates[m] - row[RateCol(m)][1],
                                       ulp |-> 0]

\* C16: analyze returns, and the changes of a comparison have a va entry
\* exactly when the current observation has a va and the anchor is resolved
\* and has a va.
C16_VaDelta ==
    last.op = "analyze" =>
        /\ last.raised = "none"
        /\ \A c \in Comparisons(last.result[1]) :
              (VaEntries(c.changes) # {}) <=>
                  /\ last.data.va # <<>>
                  /\ c.date # <<>>
                  /\ NotNa(AnchorRow(mem, last.country, c.date)["va"])

\* The change d is at least t in absolute value.
Reaches(d, t) ==
    \/ d.bps > t \/ d.bps < 0 - t
    \/ (d.bps = t /\ d.ulp >= 0)
    \/ (d.bps = 0 - t /\ d.ulp <= 0)

\* Positions of the alerts of a comparison for maturity m.
AlertsFor(alerts, name, m) ==
    {i \in 1..Len(alerts) : alerts[i].comparison = name /\ alerts[i].maturity = m}

\* C17: the alerts are exactly one alert of a comparison for each rate
\* maturity whose change in that comparison is at least the threshold in
\* absolute value (50 month-over-month, 100 year-to-date), of direction
\* increase for a positive and decrease for a negative change; no alert
\* comes from the va entry.
C17_Alerts ==
    Analyzed =>
        LET s == last.result[1]
        IN  /\ \A c \in Comparisons(s) : \A m \in Maturities :
                  LET over == {i \in RateEntries(c.changes, m) :
                                   Reaches(c.changes[i].change, c.threshold)}
                  IN  /\ Cardinality(AlertsFor(s.alerts, c.name, m))
                            = IF over # {} THEN 1 ELSE 0
                      /\ \A a \in AlertsFor(s.alerts, c.name, m) : \A i \in over :
                            s.alerts[a].direction
                              = IF c.changes[i].change.bps > 0 THEN "hausse" ELSE "baisse"
            /\ \A a \in 1..Len(s.alerts) :
                  /\ s.alerts[a].comparison \in {"M/M", "YTD"}
                  /\ s.alerts[a].maturity \in Maturities

\* An analysis whose year-to-date change of a rate is exactly 100 and has its
\* alert, whose month-over-month change of another rate is below 100 by a
\* rounding and has no year-to-date alert but a month-over-month one, with a
\* decrease alert, and with a va change of more than 50 and no alert for it.
C17_Witness ==
    /\ Analyzed
    /\ \E i \in 1..Len(last.result[1].changes_ytd) :
          /\ last.result[1].changes_ytd[i].change = [bps |-> 100, ulp |-> 0]
          /\ AlertsFor(last.result[1].alerts, "YTD",
                        last.result[1].changes_ytd[i].maturity) # {}
    /\ \E i \in 1..Len(last.result[1].changes_mom) :
          /\ last.result[1].changes_mom[i].change = [bps |-> 100, ulp |-> 0 - 1]
          /\ AlertsFor(last.result[1].alerts, "M/M",
                        last.result[1].changes_mom[i].maturity) # {}
    /\ \E a \in 1..Len(last.result[1].alerts) :
          last.result[1].alerts[a].direction = "baisse"
    /\ \E i \in VaEntries(last.result[1].changes_mom) :
          last.result[1].changes_mom[i].change.bps > 50

\* C18: in the alerts every month-over-month alert comes before every
\* year-to-date alert, and within a comparison the alerts are in ascending
\* order of maturity.
C18_AlertOrder ==
    Analyzed =>
        LET alerts == last.result[1].alerts
        IN  \A a, b \in 1..Len(alerts) :
                a < b =>
                    /\ ~(alerts[a].comparison = "YTD" /\ alerts[b].comparison = "M/M")
                    /\ (alerts[a].comparison = alerts[b].comparison
                           => alerts[a].maturity < alerts[b].maturity)

\* C19: analyze, the exact lookup, the two anchor lookups and the time
\* series query leave the frame in memory and the backing file as they were.
C19_ReadsKeepStore ==
    [][last'.op \in {"analyze", "get", "previous_month", "ytd", "query"}
          => (mem' = mem /\ file' = file)]_vars

\* An analysis has resolved both anchors, to different records, on a store
\* that was written.
C19_Witness ==
    /\ Analyzed /\ file.state = "ok" /\ Len(mem.rows) >= 2
    /\ last.result[1].previous_date # <<>> /\ last.result[1].ytd_date # <<>>
    /\ last.result[1].previous_date # last.result[1].ytd_date

\* C20: an analyze for which no record of the country lies in the window of
\* a comparison returns a summary in which the date of that comparison is
\* absent, its changes are empty and no alert is of that comparison, while
\* the other comparison has its date exactly when its window holds a record.
C20_UnresolvedIsNormal ==
    LET mom == InWindow(mem, last.country, LastDayOfPreviousMonth(last.date), 5)
        ytd == InWindow(mem, last.country, FirstOfJanuary(last.date), 10)
    IN  (last.op = "analyze" /\ (mom = {} \/ ytd = {})) =>
            /\ last.raised = "none"
            /\ (mom = {} =>
                   /\ last.result[1].previous_date = <<>>
                   /\ last.result[1].changes_mom = <<>>
                   /\ \A a \in 1..Len(last.result[1].alerts) :
                         last.result[1].alerts[a].comparison # "M/M"
                   /\ (last.result[1].ytd_date # <<>>) <=> (ytd # {}))
            /\ (ytd = {} =>
                   /\ last.result[1].ytd_date = <<>>
                   /\ last.result[1].changes_ytd = <<>>
                   /\ \A a \in 1..Len(last.result[1].alerts) :
                         last.result[1].alerts[a].comparison # "YTD"
                   /\ (last.result[1].previous_date # <<>>) <=> (mom # {}))

(***************************************************************************)
(* The time series query.                                                  *)
(***************************************************************************)
\* Positions of the rows of the store that a query of last's arguments is
\* about: the country, the date within the bounds given, a rate at maturity.
Queried ==
    {i \in 1..Len(mem.rows) :
        /\ mem.rows[i]["country"][1] = last.country
        /\ (last.start_date # <<>> => DateOfRow(mem, i) >= last.start_date[1])
        /\ (last.end_date # <<>> => DateOfRow(mem, i) <= last.end_date[1])
        /\ RateCol(last.maturity) \in Range(mem.columns)
        /\ NotNa(mem.rows[i][RateCol(last.maturity)])}

\* C21: the query returns, in ascending date order, exactly one (date, rate)
\* pair for each stored record of the country dated within [start, end]
\* (bounds inclusive, each optional) that has a rate at the maturity; records
\* without the maturity and records of other countries give no pair.
C21_Query ==
    last.op = "query" =>
        /\ \A k, j \in 1..Len(last.series) : k < j => last.series[k][1] < last.series[j][1]
        /\ Len(last.series) = Cardinality(Queried)
        /\ Range(last.series) =
              {<<DateOfRow(mem, i), mem.rows[i][RateCol(last.maturity)][1]>> : i \in Queried}

\* A query bounded on both sides by 2024-02-29 of a store of two records
\* returned the one dated on the bound and left the other out.
C21_Witness ==
    /\ last.op = "query"
    /\ last.start_date = <<738945>>
    /\ last.end_date = <<738945>>
    /\ Len(mem.rows) = 2
    /\ Len(last.series) = 1
    /\ last.series[1][1] = 738945

(***************************************************************************)
(* Ingestion.                                                              *)
(***************************************************************************)
\* The rates and the va of the rows of the store.
StoredRates ==
    {mem.rows[i][RateCol(m)][1] :
        i \in {k \in 1..Len(mem.rows) : TRUE},
        m \in {k \in TargetSet : RateCol(k) \in Range(mem.columns)}}

\* C22: every rate of the store lies within [MIN_RATE, MAX_RATE] and every
\* va within [MIN_VA, MAX_VA], however the record came in: monthly update,
\* rebuild_historical or a direct add_to_historical.
C22_StoredInRange ==
    \A i \in 1..Len(mem.rows) :
        /\ \A m \in TargetSet :
               (RateCol(m) \in Range(mem.columns) /\ NotNa(mem.rows[i][RateCol(m)]))
                   => /\ MIN_RATE <= mem.rows[i][RateCol(m)][1]
                      /\ mem.rows[i][RateCol(m)][1] <= MAX_RATE
        /\ NotNa(mem.rows[i]["va"])
               => (MIN_VA <= mem.rows[i]["va"][1] /\ mem.rows[i]["va"][1] <= MAX_VA)

\* The configured maturities of the publication of the last update whose
\* cell, as a decimal, is within the valid range.
InRangeMaturities ==
    {m \in TargetSet \cap DOMAIN last.cells :
        MIN_RATE <= last.cells[m] \div 100 /\ last.cells[m] \div 100 <= MAX_RATE}

OutOfRangeMaturities == (TargetSet \cap DOMAIN last.cells) \ InRangeMaturities

\* C23: when a publication has out-of-range rates at some maturities and
\* valid rates at others, the observation extracted has exactly the valid
\* ones, and it reaches the store and the backing file: its record has the
\* valid rates and no value (not a bound, not zero) at the others.
C23_DropsOnlyInvalid ==
    (last.op = "update" /\ InRangeMaturities # {} /\ OutOfRangeMaturities # {}) =>
        /\ DOMAIN last.data.rates = InRangeMaturities
        /\ \A m \in InRangeMaturities : last.data.rates[m] = last.cells[m] \div 100
        /\ last.saved
        /\ GetHistoricalData(mem, last.data.country, last.data.reference_date)
              = <<last.data>>
        /\ GetHistoricalData(LoadHistorical(file), last.data.country,
                             last.data.reference_date) = <<last.data>>

\* The update of the publication of 2024-03-03 stored its 1y rate alone.
C23_Witness ==
    /\ last.op = "update"
    /\ OutOfRangeMaturities = {5, 10}
    /\ last.saved
    /\ \E i \in 1..Len(mem.rows) :
          /\ DateOfRow(mem, i) = Ymd2Ord(2024, 3, 3)
          /\ mem.rows[i][RateCol(1)] = <<350>>
          /\ mem.rows[i][RateCol(5)] = NaN
          /\ mem.rows[i][RateCol(10)] = NaN

\* The update of the observation (2024-03-31, FR, 1y 0.0350) left a store of
\* that record, (2024-01-31, FR, 1y 0.0280) and (2024-02-29, FR, 1y 0.0290).
C24_Case ==
    /\ last.op = "update"
    /\ last.data = Obs(Ymd2Ord(2024, 3, 31), "FR", [rates |-> (1 :> 350), va |-> <<>>])
    /\ Len(mem.rows) = 3
    /\ GetHistoricalData(mem, "FR", Ymd2Ord(2024, 1, 31))
          = <<Obs(Ymd2Ord(2024, 1, 31), "FR", [rates |-> (1 :> 280), va |-> <<>>])>>
    /\ GetHistoricalData(mem, "FR", Ymd2Ord(2024, 2, 29))
          = <<Obs(Ymd2Ord(2024, 2, 29), "FR", [rates |-> (1 :> 290), va |-> <<>>])>>

\* C24: in that case the month-over-month anchor is the record of
\* 2024-02-29, the 1y month-over-month delta is 60 bps, reported as
\* "+60.0 bps", and the alerts are exactly one, month-over-month, for
\* maturity 1, an increase.
C24_EndToEnd ==
    C24_Case =>
        /\ last.raised = "none"
        /\ last.result[1].previous_date = <<Ymd2Ord(2024, 2, 29)>>
        /\ Len(last.result[1].changes_mom) = 1
        /\ last.result[1].changes_mom[1].key = "rate"
        /\ last.result[1].changes_mom[1].maturity = 1
        /\ last.result[1].changes_mom[1].change.bps = 60
        /\ format_bps(last.result[1].changes_mom[1].change) = "+60.0 bps"
        /\ last.result[1].alerts =
              <<[comparison |-> "M/M", maturity |-> 1, direction |-> "hausse"]>>

C24_Witness == C24_Case /\ last.result # <<>> /\ Len(last.result[1].alerts) = 1

\* C28: in the update flow a resolved month-over-month or year-to-date
\* anchor is dated strictly before the reference date of the observation.
C28_AnchorEarlier ==
    (last.op = "update" /\ last.result # <<>>) =>
        /\ last.result[1].previous_date # <<>>
               => last.result[1].previous_date[1] < last.data.reference_date
        /\ last.result[1].ytd_date # <<>>
               => last.result[1].ytd_date[1] < last.data.reference_date

\* C25: the column set of the store (reference_date, country, the rate
\* columns, va and the metadata columns) is the one it was created with
\* after every upsert, the first one into a new empty store included.
C25_ColumnsFixed ==
    [][(last'.op = "upsert" /\ Range(mem.columns) = Range(SchemaColumns))
          => Range(mem'.columns) = Range(SchemaColumns)]_vars

(***************************************************************************)
(* Two owners of the backing file.                                         *)
(***************************************************************************)
\* The (reference_date, country) of the records of the backing file f.
KeysOfFile(f) ==
    {KeyOfRow(LoadHistorical(f).rows[i]) : i \in 1..Len(LoadHistorical(f).rows)}

KeysOfFrame(df) == {KeyOfRow(df.rows[i]) : i \in 1..Len(df.rows)}

\* C26: the write of an upsert replaces the backing file with the collection
\* of the instance that wrote: a record the file held that this instance
\* never loaded and was not given is no longer in the file, whoever persisted
\* it.
C26_LaterWriteReplaces ==
    [][(last'.op = "dashboard_upsert" =>
            /\ SameRecords(LoadHistorical(file'), cached'[1])
            /\ KeysOfFile(file') = KeysOfFrame(get_analyzer(cached, file)) \cup {KeyOfRow(BuildRow(last'.data))})
       /\ (last'.op = "upsert" =>
            /\ SameRecords(LoadHistorical(file'), mem')
            /\ KeysOfFile(file') = KeysOfFrame(mem) \cup {KeyOfRow(BuildRow(last'.data))})]_vars

\* After an upsert of the dashboard the backing file lacks a record that the
\* command-line analyzer holds and persisted and the dashboard never held.
C26_Witness ==
    /\ last.op = "dashboard_upsert"
    /\ last.saved
    /\ \E k \in KeysOfFrame(mem) : k \notin KeysOfFile(file) /\ k \notin KeysOfFrame(cached[1])

(***************************************************************************)
(* The download.                                                           *)
(***************************************************************************)
\* C27: with the force option the monthly update fetches the publication
\* again even if a file of its name is in the raw directory already.
C27_ForceFetches ==
    (last.op = "download" /\ last.force /\ last.existed) => last.attempts >= 1

\* C30: download_file makes at most MAX_RETRIES attempts and none after a
\* success; when every attempt failed it raises and no file is left at
\* output_path; and whenever it returns the path, in the run of the download
\* or in a later one, the file there was downloaded completely.
C30_CompleteOrNothing ==
    last.op = "download" =>
        /\ last.attempts <= MAX_RETRIES
        /\ \A i \in 1..Len(last.outcomes) : last.outcomes[i] = "ok" => i = Len(last.outcomes)
        /\ (last.attempts >= 1 /\ \A i \in 1..Len(last.outcomes) : last.outcomes[i] # "ok")
              => (last.raised # "none" /\ raw = NoFile)
        /\ last.returned => raw = "complete"

(***************************************************************************)
(* History across runs.                                                    *)
(***************************************************************************)
\* C29: an upsert drops no record of the backing file: every record that is
\* in the file before the upsert is in it afterwards, unless it has the key
\* of the record upserted; also after a load that failed.
C29_KeepsHistory ==
    [][last'.op = "upsert" =>
          (KeysOfFile(file) \ {KeyOfRow(BuildRow(last'.data))}) \subseteq KeysOfFile(file')]_vars

====
